---- MODULE Spec2Model ----
(***************************************************************************)
(* Graph construction of the two networks of the repository:               *)
(*   zoo/senet/se_resnet50.py      SE-ResNet50                             *)
(*   zoo/shufflenet/shufflenet.py  ShuffleNet v1                           *)
(* A tensor is its static shape (batch, height, width, channels); a batch  *)
(* of 0 is the undefined batch dimension (None) of a Keras Input.  Every   *)
(* layer is modelled by the shape it infers at graph-construction time, or *)
(* by NoTensor when the layer raises.  Channel shuffle is modelled on the  *)
(* channel data as well (which input channel ends at which index).         *)
(***************************************************************************)
EXTENDS Integers, Sequences, FiniteSets, TLC

VARIABLES
    run,        \* which script is being executed: "senet", "shufflenet", or "call" (one function applied to drawn inputs)
    pc,         \* position in the script
    lib,        \* behaviour of the layer library where releases differ
    inputs,     \* the input tensor
    x,          \* the script's current tensor x
    n_groups,   \* shufflenet.py:177 (or the argument of a call)
    stage,      \* number of groups assembled so far (loop variable i, line 202)
    args,       \* arguments of the running shuffle_group call
    left,       \* iterations the running for-loop still has to make
    log,        \* the blocks built so far in the current group, in order
    last,       \* shapes inside the operation executed last
    chan,       \* channel data: chan[j] is the input channel held at index j-1
    shuffles,   \* the n_groups of the channel shuffles applied to chan
    outputs     \* the classifier's output

vars == <<run, pc, lib, inputs, x, n_groups, stage, args, left, log, last, chan, shuffles, outputs>>

-----------------------------------------------------------------------------
(* Bounds of the function-level calls *)
MaxChannels == 12
MaxGroups == 4
MaxFilters == 12
MaxRatio == 5
MaxBlocks == 3
MaxBatch == 2
CallSize == 4

-----------------------------------------------------------------------------
(* Tensors *)
Tensor(b, h, w, c) == [ok |-> TRUE, rank |-> 4, b |-> b, h |-> h, w |-> w, c |-> c]
Vector(b, c) == [ok |-> TRUE, rank |-> 2, b |-> b, h |-> 1, w |-> 1, c |-> c]
NoTensor == [ok |-> FALSE, rank |-> 0, b |-> 0, h |-> 0, w |-> 0, c |-> 0]

\* A layer of zero units or filters, or one fed a zero-channel tensor: accepted
\* by some releases of the layer library and rejected by others.
ZeroWidthOk == lib.zero_ok

\* Concatenate called on a list of one tensor: likewise release-dependent.
SingletonConcatOk == lib.concat1_ok

SameSize(n, strides) == (n + strides - 1) \div strides
\* the window count without its last position
ValidSizeShort(n, kernel, strides) == (n - kernel) \div strides
ValidSize(n, kernel, strides) == (n - kernel) \div strides + 1
OutSize(n, kernel, strides, padding) ==
    IF padding = "same" THEN SameSize(n, strides) ELSE ValidSize(n, kernel, strides)

Windowed(t, c, kernel, strides, padding) ==
    IF ~t.ok THEN NoTensor
    ELSE IF padding = "valid" /\ (t.h < kernel \/ t.w < kernel) THEN NoTensor
    ELSE Tensor(t.b, OutSize(t.h, kernel, strides, padding),
                     OutSize(t.w, kernel, strides, padding), c)

Conv2D(t, n_filters, kernel, strides, padding) ==
    IF ~t.ok \/ n_filters < 0 THEN NoTensor
    ELSE IF (n_filters = 0 \/ t.c = 0) /\ ~ZeroWidthOk THEN NoTensor
    ELSE Windowed(t, n_filters, kernel, strides, padding)

DepthwiseConv2D(t, kernel, strides, padding) ==
    IF ~t.ok THEN NoTensor
    ELSE IF t.c = 0 /\ ~ZeroWidthOk THEN NoTensor
    ELSE Windowed(t, t.c, kernel, strides, padding)

MaxPooling2D(t, pool, strides, padding) ==
    IF ~t.ok THEN NoTensor ELSE Windowed(t, t.c, pool, strides, padding)

AveragePooling2D(t, pool, strides, padding) ==
    IF ~t.ok THEN NoTensor ELSE Windowed(t, t.c, pool, strides, padding)

ZeroPadding2D(t, padding) ==
    IF ~t.ok THEN NoTensor ELSE Tensor(t.b, t.h + 2 * padding, t.w + 2 * padding, t.c)

BatchNormalization(t) == t

ReLU(t) == t

GlobalAveragePooling2D(t) == IF ~t.ok THEN NoTensor ELSE Vector(t.b, t.c)

Reshape(t, h, w, c) ==
    IF ~t.ok THEN NoTensor
    ELSE IF t.h * t.w * t.c # h * w * c THEN NoTensor
    ELSE Tensor(t.b, h, w, c)

Dense(t, units) ==
    IF ~t.ok \/ units < 0 THEN NoTensor
    ELSE IF (units = 0 \/ t.c = 0) /\ ~ZeroWidthOk THEN NoTensor
    ELSE [t EXCEPT !.c = units]

\* Elementwise merge layers broadcast a dimension of 1 and accept an undefined batch.
Broadcastable(a, b) == a = b \/ a = 1 \/ b = 1
BroadcastDim(a, b) == IF a = 1 THEN b ELSE a
BatchCompatible(a, b) == a = b \/ a = 0 \/ b = 0
MergedBatch(a, b) == IF a = 0 THEN b ELSE a

Elementwise(s, t) ==
    IF ~s.ok \/ ~t.ok THEN NoTensor
    ELSE IF ~(BatchCompatible(s.b, t.b) /\ Broadcastable(s.h, t.h)
               /\ Broadcastable(s.w, t.w) /\ Broadcastable(s.c, t.c)) THEN NoTensor
    ELSE Tensor(MergedBatch(s.b, t.b), BroadcastDim(s.h, t.h),
                BroadcastDim(s.w, t.w), BroadcastDim(s.c, t.c))

Add(s, t) == Elementwise(s, t)

\* a multiply that does not broadcast
MultiplyStrict(s, t) == IF s.ok /\ s = t THEN s ELSE NoTensor
Multiply(s, t) == Elementwise(s, t)

\* Concatenation along the channel axis: every other dimension must agree.
Concatenate(s, t) ==
    IF ~s.ok \/ ~t.ok THEN NoTensor
    ELSE IF ~(BatchCompatible(s.b, t.b) /\ s.h = t.h /\ s.w = t.w) THEN NoTensor
    ELSE Tensor(MergedBatch(s.b, t.b), s.h, s.w, s.c + t.c)

\* Concatenation of n tensors of one shape (the group convolutions' outputs).
ConcatenateGroups(t, n) ==
    IF ~t.ok THEN NoTensor
    ELSE IF n = 1 /\ ~SingletonConcatOk THEN NoTensor
    ELSE Tensor(t.b, t.h, t.w, n * t.c)

\* int(v) of Python for the quotient num/den, den > 0: truncation towards zero.
IntTrunc(num, den) == IF num >= 0 THEN num \div den ELSE -((-num) \div den)

-----------------------------------------------------------------------------
(* zoo/senet/se_resnet50.py *)
ratio == 16
InputSize == 224
InputChannels == 3
n_classes == 1000

senet_stem(t) ==
    LET p1 == ZeroPadding2D(t, 3)
        c1 == ReLU(BatchNormalization(Conv2D(p1, 64, 7, 2, "valid")))
        p2 == ZeroPadding2D(c1, 1)
    IN  MaxPooling2D(p2, 3, 2, "valid")

\* the ratio itself taken as the number of squeeze units
SqueezeFiltersRatio(n_filters, r) == r
SqueezeFilters(n_filters, r) == n_filters \div r

squeeze_excite_block(t, r) ==
    LET shortcut == t
        n_filters == t.c
        pooled == GlobalAveragePooling2D(t)
        shaped == Reshape(pooled, 1, 1, n_filters)
        squeeze == Dense(shaped, SqueezeFilters(n_filters, r))
        gate == Dense(squeeze, n_filters)
    IN  [xin |-> t, ratio |-> r, squeeze |-> squeeze, gate |-> gate,
         out |-> Multiply(shortcut, gate)]

\* restoration by 2X
RestoredFiltersDouble(n_filters) == n_filters * 2
RestoredFilters(n_filters) == n_filters * 4

ResidualBranch(n_filters, t, strides) ==
    LET c1 == ReLU(BatchNormalization(Conv2D(t, n_filters, 1, strides, "valid")))
        c2 == ReLU(BatchNormalization(Conv2D(c1, n_filters, 3, 1, "same")))
    IN  BatchNormalization(Conv2D(c2, RestoredFilters(n_filters), 1, 1, "valid"))

bottleneck_block(n_filters, t, r) ==
    LET shortcut == t
        se == squeeze_excite_block(ResidualBranch(n_filters, t, 1), r)
    IN  [op |-> "bottleneck_block", n_filters |-> n_filters, xin |-> t,
         shortcut |-> shortcut, main |-> se.out, se |-> se,
         out |-> ReLU(Add(shortcut, se.out))]

ProjectionShortcut(n_filters, t, strides) ==
    BatchNormalization(Conv2D(t, 4 * n_filters, 1, strides, "valid"))

projection_block(n_filters, t, strides, r) ==
    LET shortcut == ProjectionShortcut(n_filters, t, strides)
        se == squeeze_excite_block(ResidualBranch(n_filters, t, strides), r)
    IN  [op |-> "projection_block", n_filters |-> n_filters, strides |-> strides,
         xin |-> t, shortcut |-> shortcut, main |-> se.out, se |-> se,
         out |-> ReLU(Add(se.out, shortcut))]

senet_classifier(t, classes) == Dense(GlobalAveragePooling2D(t), classes)

\* The four residual groups of the script: the projection block's filters and
\* strides, and the range of the loop of bottleneck blocks that follows it.
ResidualGroups ==
    << [n_filters |-> 64,  strides |-> 1, n_identity |-> 2],
       [n_filters |-> 128, strides |-> 2, n_identity |-> 3],
       [n_filters |-> 256, strides |-> 2, n_identity |-> 5],
       [n_filters |-> 512, strides |-> 2, n_identity |-> 2] >>

-----------------------------------------------------------------------------
(* zoo/shufflenet/shufflenet.py *)
StemFilters == 24
reduction == 4      \* reduction = 0.25, held as its denominator

filters ==
    [g \in {1, 2, 3, 4, 8} |->
        CASE g = 1 -> <<24, 144, 288, 576>>
          [] g = 2 -> <<24, 200, 400, 800>>
          [] g = 3 -> <<24, 240, 480, 960>>
          [] g = 4 -> <<24, 272, 544, 1088>>
          [] g = 8 -> <<24, 384, 768, 1536>>]

blocks == <<4, 8, 4>>

shufflenet_stem(t) ==
    LET c1 == ReLU(BatchNormalization(Conv2D(t, StemFilters, 3, 2, "same")))
    IN  MaxPooling2D(c1, 3, 2, "same")

shufflenet_classifier(t, classes) == Dense(GlobalAveragePooling2D(t), classes)

GrpInFilters(in_filters, groups) == in_filters \div groups

\* the quotient without the rounding
GrpOutFiltersFloor(n_filters, groups) == n_filters \div groups

\* int(n_filters / n_groups + 0.5)
GrpOutFilters(n_filters, groups) == IntTrunc(2 * n_filters + groups, 2 * groups)

\* The slice x[:, :, :, grp_in_filters * i : grp_in_filters * (i + 1)] as the set
\* of channel indices it takes.
GroupSlice(grp_in_filters, i) == (grp_in_filters * i) .. (grp_in_filters * (i + 1) - 1)

pw_group_conv(t, groups, n_filters) ==
    LET in_filters == t.c
        grp_in_filters == GrpInFilters(in_filters, groups)
        grp_out_filters == GrpOutFilters(n_filters, groups)
        group == IF t.ok THEN Tensor(t.b, t.h, t.w, grp_in_filters) ELSE NoTensor
        conv == Conv2D(group, grp_out_filters, 1, 1, "same")
    IN  [xin |-> t, n_groups |-> groups, n_filters |-> n_filters,
         grp_in_filters |-> grp_in_filters, grp_out_filters |-> grp_out_filters,
         sliced |-> UNION {GroupSlice(grp_in_filters, i) : i \in 0 .. (groups - 1)},
         out |-> BatchNormalization(ConcatenateGroups(conv, groups))]

\* K.reshape with -1 for the batch: the batch that static shape inference gives
\* when a tensor of per-sample size from_c is reshaped to per-sample size to_c.
\* An undefined batch stays undefined, a defined one must divide evenly (-1: the
\* reshape raises), and a zero-size target leaves the batch undefined.
InferBatch(b, from_c, to_c) ==
    IF b = 0 \/ to_c = 0 THEN 0
    ELSE IF (b * from_c) % to_c = 0 THEN (b * from_c) \div to_c
    ELSE -1

\* the split read with the group index running fastest
ReshapeGroupsInterleaved(z, groups, grp_in_filters) ==
    [i \in 1 .. groups |-> [k \in 1 .. grp_in_filters |-> z[(k - 1) * groups + i]]]

\* The three Lambda layers on the channel data z of one pixel (row-major).
ReshapeGroups(z, groups, grp_in_filters) ==
    [i \in 1 .. groups |-> [k \in 1 .. grp_in_filters |-> z[(i - 1) * grp_in_filters + k]]]

PermuteDimensions(m, groups, grp_in_filters) ==
    [k \in 1 .. grp_in_filters |-> [i \in 1 .. groups |-> m[i][k]]]

\* the flattening read with the axes in their order before the transposition
RestoreShapeUntransposed(m, groups, grp_in_filters) ==
    [j \in 1 .. (groups * grp_in_filters) |->
        m[((j - 1) % grp_in_filters) + 1][((j - 1) \div grp_in_filters) + 1]]

RestoreShape(m, groups, grp_in_filters) ==
    [j \in 1 .. (groups * grp_in_filters) |-> m[((j - 1) \div groups) + 1][((j - 1) % groups) + 1]]

\* The channel data after the shuffle; when n_groups does not divide the
\* channel count the reshape regroups values across pixels and samples and no
\* channel map exists (<<>>).
ShuffledChannels(z, groups) ==
    LET grp_in_filters == Len(z) \div groups
    IN  IF groups * grp_in_filters # Len(z) THEN <<>>
        ELSE RestoreShape(PermuteDimensions(ReshapeGroups(z, groups, grp_in_filters),
                                            groups, grp_in_filters),
                          groups, grp_in_filters)

channel_shuffle(t, groups) ==
    LET n_filters == t.c
        grp_in_filters == n_filters \div groups
        b1 == InferBatch(t.b, n_filters, groups * grp_in_filters)
        b2 == InferBatch(b1, groups * grp_in_filters, n_filters)
    IN  IF ~t.ok \/ b1 < 0 \/ b2 < 0 THEN NoTensor
        ELSE Tensor(b2, t.h, t.w, n_filters)

\* the entry block without the adjustment of line 76
EntryFiltersUnadjusted(n_filters, t) == n_filters

\* The filters left for the main branch of the entry block (line 76).
EntryFilters(n_filters, t) == n_filters - t.c

ReducedFilters(n_filters, red) == IntTrunc(n_filters, red)

\* The part the two shuffle blocks share: group convolution, shuffle, depthwise
\* convolution of the given strides, group convolution.
ShuffleBranch(t, groups, n_filters, red, strides) ==
    LET pw1 == pw_group_conv(t, groups, ReducedFilters(n_filters, red))
        mid == ReLU(pw1.out)
        shuffled == channel_shuffle(mid, groups)
        dw == BatchNormalization(DepthwiseConv2D(shuffled, 3, strides, "same"))
        pw2 == pw_group_conv(dw, groups, n_filters)
    IN  [pw1 |-> pw1, mid |-> mid, shuffled |-> shuffled, dw |-> dw, pw2 |-> pw2,
         out |-> pw2.out]

strided_shuffle_block(t, groups, n_filters, red) ==
    LET shortcut == AveragePooling2D(t, 3, 2, "same")
        branch == ShuffleBranch(t, groups, EntryFilters(n_filters, t), red, 2)
    IN  [op |-> "strided_shuffle_block", n_groups |-> groups, n_filters |-> n_filters,
         xin |-> t, shortcut |-> shortcut, main |-> branch.out, branch |-> branch,
         out |-> ReLU(Concatenate(shortcut, branch.out))]

shuffle_block(t, groups, n_filters, red) ==
    LET shortcut == t
        branch == ShuffleBranch(t, groups, n_filters, red, 1)
    IN  [op |-> "shuffle_block", n_groups |-> groups, n_filters |-> n_filters,
         xin |-> t, shortcut |-> shortcut, main |-> branch.out, branch |-> branch,
         out |-> ReLU(Add(shortcut, branch.out))]

\* range(n_blocks)
LoopCountAll(n_blocks) == IF n_blocks > 0 THEN n_blocks ELSE 0

\* range(n_blocks - 1): the number of iterations of the loop of line 58.
LoopCount(n_blocks) == IF n_blocks - 1 > 0 THEN n_blocks - 1 ELSE 0

-----------------------------------------------------------------------------
(* The scripts *)
Libraries == [zero_ok : BOOLEAN, concat1_ok : BOOLEAN]

NoOp == [op |-> "none"]

NoArgs == [n_blocks |-> 0, n_filters |-> 0]

Input == Tensor(0, InputSize, InputSize, InputChannels)

Init ==
    /\ run \in {"senet", "shufflenet", "call"}
    /\ lib \in Libraries
    /\ pc = IF run = "call" THEN "idle" ELSE "start"
    /\ inputs = IF run = "call" THEN NoTensor ELSE Input
    /\ x = inputs
    /\ n_groups \in (IF run = "shufflenet" THEN DOMAIN filters ELSE {0})
    /\ stage = 0
    /\ args = NoArgs
    /\ left = 0
    /\ log = <<>>
    /\ last = NoOp
    /\ chan = <<>>
    /\ shuffles = <<>>
    /\ outputs = NoTensor

Goto(t, where) == IF t.ok THEN where ELSE "aborted"

(* se_resnet50.py, lines 151-196 *)
SenetAfterBlock(g, remaining) ==
    IF remaining > 0 THEN "bottleneck"
    ELSE IF g < Len(ResidualGroups) THEN "projection" ELSE "classifier"

SenetStem ==
    /\ run = "senet" /\ pc = "start"
    /\ x' = senet_stem(inputs)
    /\ last' = [op |-> "stem", xin |-> inputs, out |-> x']
    /\ pc' = Goto(x', "projection")
    /\ UNCHANGED <<run, lib, inputs, n_groups, stage, args, left, log, chan, shuffles, outputs>>

SenetProjection ==
    /\ run = "senet" /\ pc = "projection"
    /\ LET grp == ResidualGroups[stage + 1]
           blk == projection_block(grp.n_filters, x, grp.strides, ratio)
       IN  /\ last' = blk
           /\ x' = blk.out
           /\ stage' = stage + 1
           /\ left' = grp.n_identity
           /\ log' = <<"projection_block">>
           /\ pc' = Goto(blk.out, SenetAfterBlock(stage + 1, grp.n_identity))
    /\ UNCHANGED <<run, lib, inputs, n_groups, args, chan, shuffles, outputs>>

SenetBottleneck ==
    /\ run = "senet" /\ pc = "bottleneck" /\ left > 0
    /\ LET grp == ResidualGroups[stage]
           blk == bottleneck_block(grp.n_filters, x, ratio)
       IN  /\ last' = blk
           /\ x' = blk.out
           /\ left' = left - 1
           /\ log' = Append(log, "bottleneck_block")
           /\ pc' = Goto(blk.out, SenetAfterBlock(stage, left - 1))
    /\ UNCHANGED <<run, lib, inputs, n_groups, stage, args, chan, shuffles, outputs>>

SenetClassifier ==
    /\ run = "senet" /\ pc = "classifier"
    /\ outputs' = senet_classifier(x, n_classes)
    /\ last' = [op |-> "classifier", xin |-> x, out |-> outputs']
    /\ pc' = Goto(outputs', "done")
    /\ UNCHANGED <<run, lib, inputs, x, n_groups, stage, args, left, log, chan, shuffles>>

(* shufflenet.py, lines 176-209 *)
ShuffleStem ==
    /\ run = "shufflenet" /\ pc = "start"
    /\ x' = shufflenet_stem(inputs)
    /\ last' = [op |-> "stem", xin |-> inputs, out |-> x']
    /\ pc' = Goto(x', "assemble")
    /\ UNCHANGED <<run, lib, inputs, n_groups, stage, args, left, log, chan, shuffles, outputs>>

\* line 203: the call of shuffle_group for group i = stage
ShuffleCallGroup ==
    /\ run = "shufflenet" /\ pc = "assemble" /\ stage < Len(blocks)
    /\ args' = [n_blocks |-> blocks[stage + 1], n_filters |-> filters[n_groups][stage + 2]]
    /\ log' = <<>>
    /\ pc' = "group"
    /\ UNCHANGED <<run, lib, inputs, x, n_groups, stage, left, last, chan, shuffles, outputs>>

\* where shuffle_group returns to
GroupReturn == IF run = "call" THEN "returned" ELSE "assemble"

GroupAfterBlock(remaining) == IF remaining > 0 THEN "loop" ELSE GroupReturn

\* shuffle_group, line 55
ShuffleGroupEntry ==
    /\ pc = "group"
    /\ LET blk == strided_shuffle_block(x, n_groups, args.n_filters, reduction)
           n == LoopCount(args.n_blocks)
       IN  /\ last' = blk
           /\ x' = blk.out
           /\ left' = n
           /\ log' = Append(log, "strided_shuffle_block")
           /\ pc' = Goto(blk.out, GroupAfterBlock(n))
           /\ stage' = IF blk.out.ok /\ n = 0 THEN stage + 1 ELSE stage
    /\ UNCHANGED <<run, lib, inputs, n_groups, args, chan, shuffles, outputs>>

\* shuffle_group, lines 58-60
ShuffleGroupLoop ==
    /\ pc = "loop" /\ left > 0
    /\ LET blk == shuffle_block(x, n_groups, args.n_filters, reduction)
       IN  /\ last' = blk
           /\ x' = blk.out
           /\ left' = left - 1
           /\ log' = Append(log, "shuffle_block")
           /\ pc' = Goto(blk.out, GroupAfterBlock(left - 1))
           /\ stage' = IF blk.out.ok /\ left = 1 THEN stage + 1 ELSE stage
    /\ UNCHANGED <<run, lib, inputs, n_groups, args, chan, shuffles, outputs>>

ShuffleClassifier ==
    /\ run = "shufflenet" /\ pc = "assemble" /\ stage = Len(blocks)
    /\ outputs' = shufflenet_classifier(x, n_classes)
    /\ last' = [op |-> "classifier", xin |-> x, out |-> outputs']
    /\ pc' = Goto(outputs', "done")
    /\ UNCHANGED <<run, lib, inputs, x, n_groups, stage, args, left, log, chan, shuffles>>

(* One function applied to arguments drawn from bounded sets *)
CallTensors == {Tensor(b, CallSize, CallSize, c) : b \in 0 .. MaxBatch, c \in 1 .. MaxChannels}

GroupTensors == {Tensor(0, CallSize, CallSize, c) : c \in 1 .. MaxChannels}

Identity(n) == [j \in 1 .. n |-> j - 1]

CallSqueezeExcite ==
    /\ run = "call" /\ pc = "idle"
    /\ \E t \in CallTensors, r \in 1 .. MaxRatio :
          LET se == squeeze_excite_block(t, r)
          IN  /\ inputs' = t
              /\ last' = [op |-> "squeeze_excite_block", se |-> se]
              /\ x' = se.out
              /\ pc' = Goto(se.out, "returned")
    /\ UNCHANGED <<run, lib, n_groups, stage, args, left, log, chan, shuffles, outputs>>

CallPwGroupConv ==
    /\ run = "call" /\ pc = "idle"
    /\ \E t \in CallTensors, g \in 1 .. MaxGroups, n \in 0 .. MaxFilters :
          LET pw == pw_group_conv(t, g, n)
          IN  /\ inputs' = t
              /\ n_groups' = g
              /\ last' = [op |-> "pw_group_conv", pw |-> pw]
              /\ x' = pw.out
              /\ pc' = Goto(pw.out, "returned")
    /\ UNCHANGED <<run, lib, stage, args, left, log, chan, shuffles, outputs>>

CallChannelShuffle ==
    /\ run = "call" /\ pc = "idle"
    /\ \E t \in CallTensors, g \in 1 .. MaxGroups :
          /\ inputs' = t
          /\ n_groups' = g
          /\ x' = channel_shuffle(t, g)
          /\ chan' = ShuffledChannels(Identity(t.c), g)
          /\ shuffles' = <<g>>
          /\ last' = [op |-> "channel_shuffle", xin |-> t, n_groups |-> g, out |-> x']
          /\ pc' = Goto(x', "returned")
    /\ UNCHANGED <<run, lib, stage, args, left, log, outputs>>

\* channel_shuffle applied to the output of a channel_shuffle
CallChannelShuffleAgain ==
    /\ run = "call" /\ pc = "returned" /\ Len(shuffles) = 1 /\ Len(chan) = x.c
    /\ \E g \in 1 .. MaxChannels :
          /\ n_groups' = g
          /\ x' = channel_shuffle(x, g)
          /\ chan' = ShuffledChannels(chan, g)
          /\ shuffles' = Append(shuffles, g)
          /\ last' = [op |-> "channel_shuffle", xin |-> x, n_groups |-> g, out |-> x']
          /\ pc' = Goto(x', "returned")
    /\ UNCHANGED <<run, lib, inputs, stage, args, left, log, outputs>>

CallShuffleGroup ==
    /\ run = "call" /\ pc = "idle"
    /\ \E t \in GroupTensors, g \in 1 .. MaxGroups, n \in 0 .. MaxBlocks, f \in 1 .. (2 * MaxFilters) :
          /\ inputs' = t
          /\ x' = t
          /\ n_groups' = g
          /\ args' = [n_blocks |-> n, n_filters |-> f]
    /\ pc' = "group"
    /\ UNCHANGED <<run, lib, stage, left, log, last, chan, shuffles, outputs>>

Next ==
    \/ SenetStem \/ SenetProjection \/ SenetBottleneck \/ SenetClassifier
    \/ ShuffleStem \/ ShuffleCallGroup \/ ShuffleGroupEntry \/ ShuffleGroupLoop
    \/ ShuffleClassifier
    \/ CallSqueezeExcite \/ CallPwGroupConv \/ CallChannelShuffle
    \/ CallChannelShuffleAgain \/ CallShuffleGroup

Spec == Init /\ [][Next]_vars

-----------------------------------------------------------------------------
(* Properties *)
ShuffleBlocks == {"strided_shuffle_block", "shuffle_block"}
ResidualBlocks == {"projection_block", "bottleneck_block"}
SameShape(s, t) == s.ok /\ t.ok /\ s.rank = t.rank /\ s.b = t.b /\ s.h = t.h /\ s.w = t.w /\ s.c = t.c

\* C1: for g dividing C, channel_shuffle(x, g) returns a tensor of the shape of
\* x whose channel k*g + i holds input channel i*(C/g) + k, and this index map
\* is a bijection on 0..C-1.
C1_ShuffleIsIndexPermutation ==
    (last.op = "channel_shuffle" /\ Len(shuffles) = 1 /\ inputs.c % n_groups = 0) =>
        LET C == inputs.c
            g == n_groups
        IN  /\ pc = "returned"
            /\ SameShape(x, inputs)
            /\ Len(chan) = C
            /\ \A k \in 0 .. ((C \div g) - 1), i \in 0 .. (g - 1) :
                  chan[k * g + i + 1] = i * (C \div g) + k
            /\ {chan[j] : j \in 1 .. C} = 0 .. (C - 1)

C1_Witness ==
    /\ last.op = "channel_shuffle" /\ shuffles = <<3>> /\ inputs.c = 12
    /\ pc = "returned"
    /\ chan[2] = 4

\* C2 as stated: for n_groups = 2 and every even C, channel_shuffle applied
\* twice with n_groups = 2 returns every channel to its original index.
C2_ShuffleTwiceIsIdentity ==
    (shuffles = <<2, 2>> /\ inputs.c % 2 = 0) => chan = Identity(inputs.c)

\* C2 amended: for even C, channel_shuffle with n_groups = 2 followed by
\* channel_shuffle with n_groups = C/2 returns every channel to its original
\* index; twice with n_groups = 2 does so exactly when C <= 4.
C2_ShuffleInverse ==
    (Len(shuffles) = 2 /\ shuffles[1] = 2 /\ inputs.c % 2 = 0) =>
        /\ shuffles[2] * 2 = inputs.c => chan = Identity(inputs.c)
        /\ shuffles[2] = 2 => (chan = Identity(inputs.c) <=> inputs.c <= 4)

C2_Witness ==
    /\ shuffles = <<2, 6>> /\ inputs.c = 12 /\ pc = "returned"
    /\ chan = Identity(12)

\* C3: in the SE-ResNet50 script every projection_block outputs 4*n_filters
\* channels, every bottleneck_block(n_filters, x) is reached with an input of
\* 4*n_filters channels, the two branches of every add have equal channel
\* counts, and a bottleneck block's output has its input's channel count.
C3_SenetChannels ==
    run = "senet" =>
        /\ pc # "aborted"
        /\ pc = "bottleneck" => x.c = 4 * ResidualGroups[stage].n_filters
        /\ last.op \in ResidualBlocks =>
              /\ last.n_filters \in {64, 128, 256, 512}
              /\ last.shortcut.ok /\ last.main.ok /\ last.out.ok
              /\ last.shortcut.c = last.main.c
              /\ last.out.c = 4 * last.n_filters
        /\ last.op = "bottleneck_block" =>
              /\ last.xin.c = 4 * last.n_filters
              /\ last.out.c = last.xin.c

C3_Witness ==
    /\ run = "senet" /\ last.op = "bottleneck_block" /\ last.n_filters = 512
    /\ pc = "classifier" /\ x.c = 2048

\* The stage whose block was executed last (1..3), in the ShuffleNet script.
CurrentStage == IF pc = "loop" \/ pc = "aborted" THEN stage + 1 ELSE stage

\* C4: for every variant g of the filters table the channel count after every
\* block of stage i is filters[g][i]: the strided block's concatenation gives
\* the stage target, and every shuffle block adds a main branch of its
\* shortcut's channel count.
C4_ShuffleNetChannels ==
    run = "shufflenet" =>
        /\ pc = "aborted" => (n_groups = 1 /\ ~SingletonConcatOk)
        /\ (last.op \in ShuffleBlocks /\ last.main.ok) =>
              /\ last.out.ok
              /\ last.n_filters = filters[n_groups][CurrentStage + 1]
              /\ last.out.c = filters[n_groups][CurrentStage + 1]
              /\ last.xin.c = (IF last.op = "shuffle_block" THEN last.out.c
                               ELSE filters[n_groups][CurrentStage])
        /\ (last.op = "strided_shuffle_block" /\ last.main.ok) =>
              last.shortcut.c + last.main.c = last.n_filters
        /\ (last.op = "shuffle_block" /\ last.main.ok) =>
              last.main.c = last.shortcut.c

C4_Witness ==
    /\ run = "shufflenet" /\ n_groups = 8 /\ last.op = "shuffle_block"
    /\ pc = "assemble" /\ stage = 3 /\ x.c = 1536

\* A group whose assembly has completed.
ShuffleGroupDone ==
    /\ log # <<>>
    /\ \/ run = "call" /\ pc = "returned"
       \/ run = "shufflenet" /\ pc \in {"assemble", "done"}

ResidualGroupDone ==
    run = "senet" /\ log # <<>> /\ pc \in {"projection", "classifier", "done"}

EntryThenIdentity(entry, identity) ==
    log # <<>> => (log[1] = entry /\ \A j \in 2 .. Len(log) : log[j] = identity)

\* C5 as stated: for every non-negative n_blocks, shuffle_group builds exactly
\* n_blocks blocks, one strided_shuffle_block followed by n_blocks - 1
\* shuffle_blocks.
C5_ExactlyNBlocks ==
    ShuffleGroupDone =>
        /\ Len(log) = args.n_blocks
        /\ EntryThenIdentity("strided_shuffle_block", "shuffle_block")

\* C5 amended: for every n_blocks >= 1, shuffle_group builds exactly n_blocks
\* blocks, one strided_shuffle_block followed by n_blocks - 1 shuffle_blocks
\* (for n_blocks = 0 it builds the one strided_shuffle_block); no
\* shape-changing block follows an identity block within a stage; each
\* residual group of SE-ResNet50 is one projection_block followed only by
\* bottleneck_blocks.
C5_StageOrder ==
    /\ run # "senet" => EntryThenIdentity("strided_shuffle_block", "shuffle_block")
    /\ run = "senet" => EntryThenIdentity("projection_block", "bottleneck_block")
    /\ ShuffleGroupDone =>
          /\ args.n_blocks >= 1 => Len(log) = args.n_blocks
          /\ args.n_blocks = 0 => log = <<"strided_shuffle_block">>
    /\ ResidualGroupDone => Len(log) = 1 + ResidualGroups[stage].n_identity

C5_Witness ==
    /\ run = "call" /\ pc = "returned" /\ args.n_blocks = 3
    /\ log = <<"strided_shuffle_block", "shuffle_block", "shuffle_block">>

\* C6: for a (batch, 224, 224, 3) input each network's output has shape
\* (batch, 1000); the stem reduces height and width 4x (224 -> 56), every
\* stride-2 stage-entry block halves them, the classifier is reached at 7x7,
\* and the two branches of every add or concatenate have equal height and width.
StridedEntry ==
    \/ last.op = "strided_shuffle_block"
    \/ last.op = "projection_block" /\ last.strides = 2

C6_NetworkShapes ==
    run \in {"senet", "shufflenet"} =>
        /\ pc = "done" => outputs = Vector(inputs.b, 1000)
        /\ (last.op = "stem" /\ pc # "start") =>
              /\ last.xin = Tensor(0, 224, 224, 3)
              /\ last.out.ok /\ last.out.h = 56 /\ last.out.w = 56
        /\ (last.op \in ShuffleBlocks \cup ResidualBlocks /\ last.main.ok) =>
              /\ last.shortcut.ok
              /\ last.shortcut.h = last.main.h /\ last.shortcut.w = last.main.w
              /\ last.out.ok
              /\ IF StridedEntry
                 THEN 2 * last.out.h = last.xin.h /\ 2 * last.out.w = last.xin.w
                 ELSE last.out.h = last.xin.h /\ last.out.w = last.xin.w
        /\ last.op = "classifier" =>
              /\ last.xin.h = 7 /\ last.xin.w = 7
              /\ pc = "done"
        /\ (run = "senet" \/ n_groups # 1 \/ SingletonConcatOk) => pc # "aborted"

C6_Witness ==
    /\ run = "shufflenet" /\ n_groups = 2 /\ pc = "done"
    /\ outputs.c = 1000 /\ x.h = 7

\* The squeeze-excite block built last, alone or inside a residual block.
HasSE == last.op = "squeeze_excite_block" \/ last.op \in ResidualBlocks

\* C7: when ratio r divides the input channel count C, the squeeze has exactly
\* C/r channels, the gate C channels and the output the input's shape; every
\* squeeze_excite_block call of the SE-ResNet50 script has 16 dividing C.
C7_SqueezeExciteShapes ==
    HasSE =>
        /\ run = "senet" => (last.se.ratio = 16 /\ last.se.xin.c % last.se.ratio = 0)
        /\ (last.se.xin.ok /\ last.se.xin.c % last.se.ratio = 0) =>
              /\ last.se.squeeze.ok
              /\ last.se.squeeze.c * last.se.ratio = last.se.xin.c
              /\ last.se.gate.ok /\ last.se.gate.c = last.se.xin.c
              /\ SameShape(last.se.out, last.se.xin)

C7_Witness ==
    /\ last.op = "squeeze_excite_block" /\ last.se.xin.c = 12 /\ last.se.ratio = 4
    /\ last.se.squeeze.c = 3 /\ pc = "returned"

\* C8 as stated: when the ratio does not divide the input channel count,
\* building the squeeze_excite_block fails and never completes with a
\* well-shaped output.
C8_IndivisibleRatioAborts ==
    (last.op = "squeeze_excite_block" /\ last.se.xin.c % last.se.ratio # 0) =>
        (pc = "aborted" /\ ~last.se.out.ok)

\* C8 amended: when the ratio does not divide the input channel count C and is
\* smaller than C, building the squeeze_excite_block completes: the squeeze has
\* floor(C/ratio) channels, the gate C channels, and the output the input's
\* shape; construction can abort only when ratio > C (a squeeze of zero units).
C8_IndivisibleRatioFloors ==
    (last.op = "squeeze_excite_block" /\ last.se.xin.c % last.se.ratio # 0) =>
        LET C == last.se.xin.c
            r == last.se.ratio
        IN  /\ C > r =>
                  /\ pc = "returned"
                  /\ last.se.squeeze.ok
                  /\ last.se.squeeze.c * r <= C /\ C < (last.se.squeeze.c + 1) * r
                  /\ last.se.gate.ok /\ last.se.gate.c = C
                  /\ SameShape(last.se.out, last.se.xin)
            /\ pc = "aborted" => (C < r /\ ~ZeroWidthOk)

C8_Witness ==
    /\ last.op = "squeeze_excite_block" /\ last.se.xin.c = 11 /\ last.se.ratio = 4
    /\ last.se.squeeze.c = 2 /\ pc = "returned"

\* C9: when the input channel count is not divisible by n_groups,
\* pw_group_conv and channel_shuffle abort graph construction instead of
\* completing with input channels left out of every group.
C9_IndivisibleGroupsAbort ==
    /\ (last.op = "pw_group_conv" /\ last.pw.xin.c % last.pw.n_groups # 0) =>
          pc = "aborted"
    /\ (last.op = "channel_shuffle" /\ last.xin.c % last.n_groups # 0) =>
          pc = "aborted"

\* C10: pw_group_conv gives each group floor(n_filters/n_groups + 1/2) output
\* channels, its output has n_groups times as many, which is n_filters exactly
\* when n_groups divides n_filters; the tensors handed to channel_shuffle and
\* to the second pw_group_conv of a shuffle block have a multiple of n_groups
\* channels.
RoundsHalfUp(pw) ==
    /\ 2 * pw.n_groups * pw.grp_out_filters <= 2 * pw.n_filters + pw.n_groups
    /\ 2 * pw.n_filters + pw.n_groups < 2 * pw.n_groups * (pw.grp_out_filters + 1)

GroupedOutput(pw) ==
    pw.n_filters >= 0 =>
        /\ RoundsHalfUp(pw)
        /\ pw.out.ok =>
              /\ pw.out.c = pw.n_groups * pw.grp_out_filters
              /\ pw.out.c = pw.n_filters <=> pw.n_filters % pw.n_groups = 0

C10_GroupConvRounding ==
    /\ last.op = "pw_group_conv" => GroupedOutput(last.pw)
    /\ last.op \in ShuffleBlocks =>
          /\ GroupedOutput(last.branch.pw1)
          /\ last.branch.pw2.xin.ok => GroupedOutput(last.branch.pw2)
          /\ last.branch.mid.ok => last.branch.mid.c % last.n_groups = 0
          /\ last.branch.dw.ok =>
                /\ last.branch.dw.c % last.n_groups = 0
                /\ last.branch.dw.c = last.branch.pw2.xin.c

C10_Witness ==
    /\ last.op = "pw_group_conv" /\ last.pw.n_filters = 5 /\ last.pw.n_groups = 2
    /\ last.pw.grp_out_filters = 3 /\ x.c = 6 /\ pc = "returned"

====
